---- MODULE Spec2Model ----
(***************************************************************************)
(* A model of vinted_scraper.py: the condition menu (get_user_input), the  *)
(* search URL (construct_search_url), the price parser (clean_price) and   *)
(* the scraping run (main from setup_driver on, with scrape_vinted_prices, *)
(* the cleaning loop, calculate_average_price and the finally block).      *)
(*                                                                         *)
(* Strings are sequences of one-character strings, so that strip, replace  *)
(* and the regular-expression search are computed character by character.  *)
(* A float is the decimal fraction it denotes, [num, den] with den the     *)
(* least power of ten, so equal floats are equal records.                  *)
(***************************************************************************)
EXTENDS Integers, Sequences, FiniteSets, TLC

VARIABLES
    \* clean_price applied to one fragment
    fragment, parse_pc, parse_result,
    \* construct_search_url applied to one triple
    url_brand, url_description, url_condition, url_pc, url,
    \* get_user_input
    in_pc, brand, description, condition, choice, prompts, invalid_msgs,
    valid_entered, invalid_entered,
    \* main: position, the driver and what was printed
    pc, driver, quit_calls, op_after_quit, exc, printed,
    \* scrape_vinted_prices: the wait for the render
    sel_idx, sel_waited, body_waits, sleeps, price_element_found,
    nav_failed, wait_failed,
    \* scrape_vinted_prices: the extraction
    pat_idx, prices, origin, queried, matched, content_scanned,
    read_failures,
    \* main: parsing and averaging
    price_strings, cleaned_prices, avg_price, avg_empty_call

parse_vars == <<fragment, parse_pc, parse_result>>
url_vars == <<url_brand, url_description, url_condition, url_pc, url>>
input_vars == <<in_pc, brand, description, condition, choice, prompts,
                invalid_msgs, valid_entered, invalid_entered>>
run_vars == <<pc, driver, quit_calls, op_after_quit, exc, printed>>
confirm_vars == <<sel_idx, sel_waited, body_waits, sleeps, price_element_found>>
failure_vars == <<nav_failed, wait_failed>>
extract_vars == <<pat_idx, prices, origin, queried, matched, content_scanned,
                  read_failures>>
post_vars == <<price_strings, cleaned_prices, avg_price, avg_empty_call>>
main_vars == <<run_vars, confirm_vars, failure_vars, extract_vars, post_vars>>
vars == <<parse_vars, url_vars, input_vars, main_vars>>

\* Python's None: in a slot that holds a string, and in a slot that holds a
\* float or a match object (a record)
None == "None"
NoValue == [none |-> TRUE]

----------------------------------------------------------------------------
(* Bounds *)

\* longest enumerated fragment given to clean_price
MaxLen == 4
\* longest enumerated brand and description given to construct_search_url
MaxStr == 2
\* most menu choices one run of get_user_input reads
MaxTries == 3
\* most elements one find_elements call returns
MaxElems == 2
\* most lookups of one run whose elements fail while their text is read
MaxReadFailures == 1

----------------------------------------------------------------------------
(* Characters and strings *)

Pound == "£"
Tab == "\t"
Digits == {"0", "1", "2", "3", "4", "5", "6", "7", "8", "9"}
Whitespace == {" ", Tab}

IsDigit(c) == c \in Digits

DigitVal(c) ==
    CASE c = "0" -> 0 [] c = "1" -> 1 [] c = "2" -> 2 [] c = "3" -> 3
      [] c = "4" -> 4 [] c = "5" -> 5 [] c = "6" -> 6 [] c = "7" -> 7
      [] c = "8" -> 8 [] c = "9" -> 9

RECURSIVE Pow10(_)
Pow10(n) == IF n = 0 THEN 1 ELSE 10 * Pow10(n - 1)

\* all strings over alphabet A of length at most n
StringsUpTo(A, n) == UNION {[1..k -> A] : k \in 0..n}

\* str.strip(): leading and trailing whitespace removed
RECURSIVE LStrip(_)
LStrip(s) ==
    IF s # <<>> /\ Head(s) \in Whitespace THEN LStrip(Tail(s)) ELSE s

RECURSIVE RStrip(_)
RStrip(s) ==
    IF s # <<>> /\ s[Len(s)] \in Whitespace
    THEN RStrip(SubSeq(s, 1, Len(s) - 1))
    ELSE s

Strip(s) == RStrip(LStrip(s))

\* str.replace(c, r) for a one-character c: every c becomes the string r
RECURSIVE Replace(_, _, _)
Replace(s, c, r) ==
    IF s = <<>> THEN <<>>
    ELSE (IF Head(s) = c THEN r ELSE <<Head(s)>>) \o Replace(Tail(s), c, r)

----------------------------------------------------------------------------
(* clean_price *)

\* the longest run of digits of s that starts at position i (possibly empty)
RECURSIVE DigitRunEnd(_, _)
DigitRunEnd(s, i) ==
    IF i <= Len(s) /\ IsDigit(s[i]) THEN DigitRunEnd(s, i + 1) ELSE i - 1

\* the least position of s at or after i that holds a digit, 0 when none
RECURSIVE FirstDigitFrom(_, _)
FirstDigitFrom(s, i) ==
    IF i > Len(s) THEN 0
    ELSE IF IsDigit(s[i]) THEN i
    ELSE FirstDigitFrom(s, i + 1)

\* a search for r'(\d+)': the point and the digits after it are not matched
ReSearchDigitsOnly(s) ==
    LET i == FirstDigitFrom(s, 1) IN
    IF i = 0 THEN NoValue
    ELSE [from |-> i, dot |-> 0, to |-> DigitRunEnd(s, i)]

\* re.search(r'(\d+\.?\d*)', s): the leftmost match, each part greedy;
\* [from, dot, to]: the match is s[from..to], dot the position of its "."
\* (0 when it has none); NoValue when nothing matches
ReSearch(s) ==
    LET i == FirstDigitFrom(s, 1) IN
    IF i = 0 THEN NoValue
    ELSE LET k == DigitRunEnd(s, i)
             hasDot == k < Len(s) /\ s[k + 1] = "."
             j == IF hasDot THEN DigitRunEnd(s, k + 2) ELSE k
         IN  [from |-> i, dot |-> IF hasDot THEN k + 1 ELSE 0, to |-> j]

\* int() of a string of digits, most significant first
RECURSIVE DigitsToNat(_)
DigitsToNat(s) ==
    IF s = <<>> THEN 0
    ELSE 10 * DigitsToNat(SubSeq(s, 1, Len(s) - 1)) + DigitVal(s[Len(s)])

RECURSIVE DropTrailingZeros(_)
DropTrailingZeros(s) ==
    IF s # <<>> /\ s[Len(s)] = "0"
    THEN DropTrailingZeros(SubSeq(s, 1, Len(s) - 1))
    ELSE s

\* float() of a matched token "ddd", "ddd." or "ddd.ddd"
ToFloat(s, m) ==
    LET ip == SubSeq(s, m.from, IF m.dot = 0 THEN m.to ELSE m.dot - 1)
        fp == IF m.dot = 0 THEN <<>>
              ELSE DropTrailingZeros(SubSeq(s, m.dot + 1, m.to))
    IN  [num |-> DigitsToNat(ip) * Pow10(Len(fp)) + DigitsToNat(fp),
         den |-> Pow10(Len(fp))]

clean_price(price_string) ==
    IF price_string = <<>> THEN NoValue
    ELSE LET cleaned == Strip(Replace(price_string, Pound, <<>>))
             match == ReSearch(cleaned)
         IN  IF match # NoValue THEN ToFloat(cleaned, match) ELSE NoValue

----------------------------------------------------------------------------
(* clean_price applied to a fragment *)

FragmentAlphabet == {"0", "1", "5", ".", ",", Pound, " ", "a"}

Examples ==
    { <<Pound, "1", "2", ".", "5", "0">>,
      <<Pound, " ", "1", "5", ".", "9", "9">>,
      <<"P", "r", "i", "c", "e", ":", " ", Pound, "2", "0">>,
      <<Pound, "1", ",", "2", "0", "0">>,
      <<"n", "o", " ", "p", "r", "i", "c", "e", " ", "h", "e", "r", "e">> }

FragmentInputs == StringsUpTo(FragmentAlphabet, MaxLen) \cup Examples

IdleParse ==
    /\ fragment = <<>>
    /\ parse_pc = "idle"
    /\ parse_result = NoValue

InitParse ==
    /\ fragment \in FragmentInputs
    /\ parse_pc = "call"
    /\ parse_result = NoValue

CleanPriceCall ==
    /\ parse_pc = "call"
    /\ parse_result' = clean_price(fragment)
    /\ parse_pc' = "returned"
    /\ UNCHANGED fragment
    /\ UNCHANGED <<url_vars, input_vars, main_vars>>

----------------------------------------------------------------------------
(* construct_search_url *)

ConditionLabels ==
    {"New With Tags", "New Without Tags", "Very Good", "Good", "Satisfactory"}

\* the characters of a condition label
Chars(label) ==
    CASE label = "New With Tags" ->
           <<"N", "e", "w", " ", "W", "i", "t", "h", " ", "T", "a", "g", "s">>
      [] label = "New Without Tags" ->
           <<"N", "e", "w", " ", "W", "i", "t", "h", "o", "u", "t", " ", "T",
           "a", "g", "s">>
      [] label = "Very Good" ->
           <<"V", "e", "r", "y", " ", "G", "o", "o", "d">>
      [] label = "Good" ->
           <<"G", "o", "o", "d">>
      [] label = "Satisfactory" ->
           <<"S", "a", "t", "i", "s", "f", "a", "c", "t", "o", "r", "y">>

base_url ==
    <<"h", "t", "t", "p", "s", ":", "/", "/", "w", "w", "w", ".", "v",
    "i", "n", "t", "e", "d", ".", "c", "o", ".", "u", "k", "/", "c", "a",
    "t", "a", "l", "o", "g">>

SearchTextParam == <<"?", "s", "e", "a", "r", "c", "h", "_", "t", "e", "x", "t", "=">>

\* f"{brand} {description} {condition}"
SearchTerms(b, d, c) == b \o <<" ">> \o d \o <<" ">> \o Chars(c)

\* the search text without the strip()
SearchTextNoStrip(b, d, c) == Replace(SearchTerms(b, d, c), " ", <<"+">>)

SearchText(b, d, c) == Replace(Strip(SearchTerms(b, d, c)), " ", <<"+">>)

construct_search_url(b, d, c) == base_url \o SearchTextParam \o SearchText(b, d, c)

UrlAlphabet == {"a", "&", " ", "+", Tab}

IdleUrl ==
    /\ url_brand = <<>>
    /\ url_description = <<>>
    /\ url_condition = None
    /\ url_pc = "idle"
    /\ url = <<>>

InitUrl ==
    /\ url_brand \in StringsUpTo(UrlAlphabet, MaxStr)
    /\ url_description \in StringsUpTo(UrlAlphabet, MaxStr)
    /\ url_condition \in ConditionLabels
    /\ url_pc = "call"
    /\ url = <<>>

ConstructSearchUrlCall ==
    /\ url_pc = "call"
    /\ url' = construct_search_url(url_brand, url_description, url_condition)
    /\ url_pc' = "returned"
    /\ UNCHANGED <<url_brand, url_description, url_condition>>
    /\ UNCHANGED <<parse_vars, input_vars, main_vars>>

----------------------------------------------------------------------------
(* get_user_input *)

condition_menu ==
    [k \in {<<"1">>, <<"2">>, <<"3">>, <<"4">>, <<"5">>} |->
        CASE k = <<"1">> -> "New With Tags"
          [] k = <<"2">> -> "New Without Tags"
          [] k = <<"3">> -> "Very Good"
          [] k = <<"4">> -> "Good"
          [] k = <<"5">> -> "Satisfactory"]

\* what the user may type for the brand and the description
TextInputs == StringsUpTo({"a", " "}, MaxStr)

\* what the user may type at the menu prompt
ChoiceInputs ==
    { <<"1">>, <<"2">>, <<"3">>, <<"4">>, <<"5">>,
      <<" ", "3">>, <<"4", " ">>, <<Tab, "5", " ">>,
      <<>>, <<" ">>, <<"0">>, <<"6">>, <<"a">>, <<"1", "2">>, <<"3", " ", "3">> }

\* typed text that names a menu entry: one of 1..5 with whitespace around it
IsValidChoice(raw) ==
    \E i \in 1..Len(raw) :
        /\ raw[i] \in {"1", "2", "3", "4", "5"}
        /\ \A j \in 1..Len(raw) : j # i => raw[j] \in Whitespace

\* the label of the menu entry a valid typed text names
LabelOfChoice(raw) ==
    LET d == CHOOSE c \in {"1", "2", "3", "4", "5"} : \E i \in 1..Len(raw) : raw[i] = c
    IN  CASE d = "1" -> "New With Tags"
          [] d = "2" -> "New Without Tags"
          [] d = "3" -> "Very Good"
          [] d = "4" -> "Good"
          [] d = "5" -> "Satisfactory"

IdleInput ==
    /\ in_pc = "idle"
    /\ brand = <<>>
    /\ description = <<>>
    /\ condition = None
    /\ choice = <<>>
    /\ prompts = 0
    /\ invalid_msgs = 0
    /\ valid_entered = None
    /\ invalid_entered = 0

InitInput ==
    /\ in_pc = "brand"
    /\ brand = <<>>
    /\ description = <<>>
    /\ condition = None
    /\ choice = <<>>
    /\ prompts = 0
    /\ invalid_msgs = 0
    /\ valid_entered = None
    /\ invalid_entered = 0

\* brand = input(...).strip()
ReadBrand ==
    /\ in_pc = "brand"
    /\ \E raw \in TextInputs : brand' = Strip(raw)
    /\ in_pc' = "description"
    /\ UNCHANGED <<description, condition, choice, prompts, invalid_msgs,
                   valid_entered, invalid_entered>>
    /\ UNCHANGED <<parse_vars, url_vars, main_vars>>

\* description = input(...).strip(); the menu is printed; condition = None
ReadDescription ==
    /\ in_pc = "description"
    /\ \E raw \in TextInputs : description' = Strip(raw)
    /\ condition' = None
    /\ in_pc' = "while"
    /\ UNCHANGED <<brand, choice, prompts, invalid_msgs, valid_entered,
                   invalid_entered>>
    /\ UNCHANGED <<parse_vars, url_vars, main_vars>>

\* while condition is None: enter the body
LoopEnter ==
    /\ in_pc = "while"
    /\ condition = None
    /\ in_pc' = "choice"
    /\ UNCHANGED <<brand, description, condition, choice, prompts,
                   invalid_msgs, valid_entered, invalid_entered>>
    /\ UNCHANGED <<parse_vars, url_vars, main_vars>>

\* while condition is None: leave the loop; return brand, description, condition
LoopExit ==
    /\ in_pc = "while"
    /\ condition # None
    /\ in_pc' = "returned"
    /\ UNCHANGED <<brand, description, condition, choice, prompts,
                   invalid_msgs, valid_entered, invalid_entered>>
    /\ UNCHANGED <<parse_vars, url_vars, main_vars>>

\* the choice looked up as typed, without the strip()
ReadChoiceNoStrip ==
    /\ in_pc = "choice"
    /\ prompts < MaxTries
    /\ \E raw \in ChoiceInputs :
        /\ choice' = raw
        /\ prompts' = prompts + 1
        /\ IF raw \in DOMAIN condition_menu
           THEN /\ condition' = condition_menu[raw]
                /\ invalid_msgs' = invalid_msgs
           ELSE /\ condition' = condition
                /\ invalid_msgs' = invalid_msgs + 1
        /\ IF IsValidChoice(raw)
           THEN /\ valid_entered' =
                     IF valid_entered = None THEN LabelOfChoice(raw)
                     ELSE valid_entered
                /\ invalid_entered' = invalid_entered
           ELSE /\ valid_entered' = valid_entered
                /\ invalid_entered' = invalid_entered + 1
    /\ in_pc' = "while"
    /\ UNCHANGED <<brand, description>>
    /\ UNCHANGED <<parse_vars, url_vars, main_vars>>

\* choice = input("Enter a number (1-5): ").strip(), then the menu lookup;
\* valid_entered and invalid_entered record what was typed
ReadChoice ==
    /\ in_pc = "choice"
    /\ prompts < MaxTries
    /\ \E raw \in ChoiceInputs :
        LET c == Strip(raw) IN
        /\ choice' = c
        /\ prompts' = prompts + 1
        /\ IF c \in DOMAIN condition_menu
           THEN /\ condition' = condition_menu[c]
                /\ invalid_msgs' = invalid_msgs
           ELSE /\ condition' = condition
                /\ invalid_msgs' = invalid_msgs + 1
        /\ IF IsValidChoice(raw)
           THEN /\ valid_entered' =
                     IF valid_entered = None THEN LabelOfChoice(raw)
                     ELSE valid_entered
                /\ invalid_entered' = invalid_entered
           ELSE /\ valid_entered' = valid_entered
                /\ invalid_entered' = invalid_entered + 1
    /\ in_pc' = "while"
    /\ UNCHANGED <<brand, description>>
    /\ UNCHANGED <<parse_vars, url_vars, main_vars>>

----------------------------------------------------------------------------
(* The page as the driver shows it *)

\* WebDriverWait(driver, 15), time.sleep(3), time.sleep(2)
WaitTimeout == 15
BodySettle == 3
FinalSettle == 2

price_selectors ==
    <<"[class*='price']", "[data-testid*='price']",
      "//*[contains(text(), '£')]", ".new-item-box__price">>

price_patterns ==
    <<"[class*='price']", "[data-testid*='price']", ".new-item-box__price",
      ".feed-grid__item [class*='price']", "[class*='Price']",
      "[class*='item-price']">>

\* the origin recorded for a fragment the '£' text scan collected
ContentRule == 0

\* the visible text an element may have
PageTexts ==
    { <<>>, <<" ", Pound, "5">>, <<Pound, "0">>, <<"S", "o", "l", "d">> }

\* an element whose text cannot be read (element.text raises)
Stale == [text |-> <<>>, ok |-> FALSE]

Elements == {[text |-> t, ok |-> TRUE] : t \in PageTexts} \cup {Stale}

\* what driver.find_elements may do: raise, or return a list of elements
LookupRaises == [ok |-> FALSE, elems |-> <<>>]

LookupOutcomes ==
    {[ok |-> TRUE, elems |-> e] : e \in StringsUpTo(Elements, MaxElems)}
        \cup {LookupRaises}

HasStale(elems) == \E i \in 1..Len(elems) : ~elems[i].ok

\* for element in price_elements: price_text = element.text.strip();
\* if price_text: prices.append(price_text)
\* [out: the list after the loop, raised: whether element.text raised]
RECURSIVE ReadElements(_, _)
ReadElements(elems, acc) ==
    IF elems = <<>> THEN [out |-> acc, raised |-> FALSE]
    ELSE IF ~Head(elems).ok THEN [out |-> acc, raised |-> TRUE]
    ELSE LET price_text == Strip(Head(elems).text) IN
         ReadElements(Tail(elems),
                      IF price_text # <<>> THEN Append(acc, price_text) ELSE acc)

Contains(s, c) == \E i \in 1..Len(s) : s[i] = c

\* for element in all_text: text = element.text.strip();
\* if text and "£" in text: prices.append(text)
RECURSIVE ReadContentElements(_, _)
ReadContentElements(elems, acc) ==
    IF elems = <<>> THEN [out |-> acc, raised |-> FALSE]
    ELSE IF ~Head(elems).ok THEN [out |-> acc, raised |-> TRUE]
    ELSE LET text == Strip(Head(elems).text) IN
         ReadContentElements(Tail(elems),
                             IF text # <<>> /\ Contains(text, Pound)
                             THEN Append(acc, text) ELSE acc)

\* n copies of x
Copies(x, n) == [i \in 1..n |-> x]

----------------------------------------------------------------------------
(* main, from setup_driver on *)

IdleMain ==
    /\ pc = "idle"
    /\ driver = None
    /\ quit_calls = 0
    /\ op_after_quit = FALSE
    /\ exc = FALSE
    /\ printed = {}
    /\ sel_idx = 1
    /\ sel_waited = 0
    /\ body_waits = 0
    /\ sleeps = <<>>
    /\ price_element_found = FALSE
    /\ nav_failed = FALSE
    /\ wait_failed = FALSE
    /\ pat_idx = 1
    /\ prices = <<>>
    /\ origin = <<>>
    /\ queried = {}
    /\ matched = {}
    /\ content_scanned = FALSE
    /\ read_failures = 0
    /\ price_strings = <<>>
    /\ cleaned_prices = <<>>
    /\ avg_price = NoValue
    /\ avg_empty_call = FALSE

\* the query is built; driver = None
InitMain ==
    /\ pc = "setup"
    /\ driver = None
    /\ quit_calls = 0
    /\ op_after_quit = FALSE
    /\ exc = FALSE
    /\ printed = {}
    /\ sel_idx = 1
    /\ sel_waited = 0
    /\ body_waits = 0
    /\ sleeps = <<>>
    /\ price_element_found = FALSE
    /\ nav_failed = FALSE
    /\ wait_failed = FALSE
    /\ pat_idx = 1
    /\ prices = <<>>
    /\ origin = <<>>
    /\ queried = {}
    /\ matched = {}
    /\ content_scanned = FALSE
    /\ read_failures = 0
    /\ price_strings = <<>>
    /\ cleaned_prices = <<>>
    /\ avg_price = NoValue
    /\ avg_empty_call = FALSE

\* a call on the driver; op_after_quit records one made after driver.quit()
DriverOp == op_after_quit' = (op_after_quit \/ quit_calls > 0)

\* driver = setup_driver(headless=True): returns a driver, or raises
SetupDriver ==
    /\ pc = "setup"
    /\ \/ /\ driver' = "driver"
          /\ pc' = "get"
       \/ /\ driver' = driver
          /\ pc' = "except"
    /\ UNCHANGED <<quit_calls, op_after_quit, exc, printed>>
    /\ UNCHANGED <<confirm_vars, failure_vars, extract_vars, post_vars>>
    /\ UNCHANGED <<parse_vars, url_vars, input_vars>>

\* driver.get(url), outside the try block of scrape_vinted_prices: when it
\* raises, the exception leaves scrape_vinted_prices
DriverGet ==
    /\ pc = "get"
    /\ DriverOp
    /\ \/ /\ pc' = "wait_selectors"
          /\ nav_failed' = nav_failed
       \/ /\ pc' = "except"
          /\ nav_failed' = TRUE
    /\ UNCHANGED <<driver, quit_calls, exc, printed>>
    /\ UNCHANGED <<confirm_vars, wait_failed, extract_vars, post_vars>>
    /\ UNCHANGED <<parse_vars, url_vars, input_vars>>

\* one pass of: for by, selector in price_selectors:
\*     try: wait.until(presence_of_element_located(...)); found = True; break
\*     except: continue
\* an element appears after t units, or the wait ends without one (the
\* timeout after WaitTimeout units, or another exception sooner)
WaitSelector ==
    /\ pc = "wait_selectors"
    /\ DriverOp
    /\ \E t \in 0..WaitTimeout :
        /\ sel_waited' = sel_waited + t
        /\ \/ /\ price_element_found' = TRUE
              /\ sel_idx' = sel_idx
              /\ pc' = "settle"
           \/ /\ price_element_found' = price_element_found
              /\ IF sel_idx < Len(price_selectors)
                 THEN sel_idx' = sel_idx + 1 /\ pc' = pc
                 ELSE sel_idx' = sel_idx /\ pc' = "wait_body"
    /\ UNCHANGED <<driver, quit_calls, exc, printed>>
    /\ UNCHANGED <<body_waits, sleeps, failure_vars, extract_vars, post_vars>>
    /\ UNCHANGED <<parse_vars, url_vars, input_vars>>

\* if not price_element_found: wait.until(presence of body); time.sleep(3)
\* when the wait raises: except Exception: print(...); return []
WaitBody ==
    /\ pc = "wait_body"
    /\ DriverOp
    /\ body_waits' = body_waits + 1
    /\ \/ /\ sleeps' = Append(sleeps, BodySettle)
          /\ pc' = "settle"
          /\ UNCHANGED <<printed, wait_failed, price_strings>>
       \/ /\ printed' = printed \cup {"Check your internet connection"}
          /\ wait_failed' = TRUE
          /\ price_strings' = <<>>
          /\ pc' = "check_strings"
          /\ UNCHANGED sleeps
    /\ UNCHANGED <<driver, quit_calls, exc>>
    /\ UNCHANGED <<sel_idx, sel_waited, price_element_found, nav_failed>>
    /\ UNCHANGED <<extract_vars, cleaned_prices, avg_price, avg_empty_call>>
    /\ UNCHANGED <<parse_vars, url_vars, input_vars>>

\* time.sleep(2); prices = []
Settle ==
    /\ pc = "settle"
    /\ sleeps' = Append(sleeps, FinalSettle)
    /\ prices' = <<>>
    /\ pat_idx' = 1
    /\ pc' = "patterns"
    /\ UNCHANGED <<driver, quit_calls, op_after_quit, exc, printed>>
    /\ UNCHANGED <<sel_idx, sel_waited, body_waits, price_element_found>>
    /\ UNCHANGED <<failure_vars, post_vars>>
    /\ UNCHANGED <<origin, queried, matched, content_scanned, read_failures>>
    /\ UNCHANGED <<parse_vars, url_vars, input_vars>>

\* the render wait is over once the extraction starts: its measurements are
\* cleared by the first lookup
ConfirmCleared ==
    /\ sel_idx' = 1
    /\ sel_waited' = 0
    /\ body_waits' = 0
    /\ sleeps' = <<>>
    /\ price_element_found' = FALSE

\* the step after one pass of the pattern loop that did not break
NextPattern ==
    IF pat_idx < Len(price_patterns)
    THEN pat_idx' = pat_idx + 1 /\ pc' = pc
    ELSE pat_idx' = pat_idx /\ pc' = "content"

\* one pass of: for pattern in price_patterns:
\*     try: price_elements = driver.find_elements(By.CSS_SELECTOR, pattern)
\*          if price_elements: (read every element's text); break
\*     except: continue
QueryPattern ==
    /\ pc = "patterns"
    /\ DriverOp
    /\ ConfirmCleared
    /\ queried' = queried \cup {pat_idx}
    /\ \E res \in LookupOutcomes :
        /\ HasStale(res.elems) => read_failures < MaxReadFailures
        /\ IF ~res.ok \/ res.elems = <<>>
           THEN /\ NextPattern
                /\ UNCHANGED <<prices, origin, matched, read_failures>>
           ELSE LET r == ReadElements(res.elems, prices) IN
                /\ prices' = r.out
                /\ origin' = origin \o Copies(pat_idx, Len(r.out) - Len(prices))
                /\ matched' = matched \cup {pat_idx}
                /\ IF r.raised
                   THEN /\ NextPattern
                        /\ read_failures' = read_failures + 1
                   ELSE /\ pat_idx' = pat_idx
                        /\ pc' = "content"
                        /\ read_failures' = read_failures
    /\ UNCHANGED <<driver, quit_calls, exc, printed>>
    /\ UNCHANGED <<failure_vars, content_scanned, post_vars>>
    /\ UNCHANGED <<parse_vars, url_vars, input_vars>>

\* the content rule run whatever the structural rules collected
NeedContentRuleAlways(p) == TRUE

\* if not prices:
NeedContentRule(p) == p = <<>>

\* if not prices: try: all_text = driver.find_elements(By.XPATH, ...), every
\* element's text read; except Exception: print(...)
\* then print(f"Extracted ..."); return prices
ContentScan ==
    /\ pc = "content"
    /\ NeedContentRule(prices)
    /\ DriverOp
    /\ content_scanned' = TRUE
    /\ \E res \in LookupOutcomes :
        /\ HasStale(res.elems) => read_failures < MaxReadFailures
        /\ IF ~res.ok
           THEN /\ printed' = printed \cup {"Please try again later"}
                /\ UNCHANGED <<prices, origin, read_failures>>
           ELSE LET r == ReadContentElements(res.elems, prices) IN
                /\ prices' = r.out
                /\ origin' = origin \o Copies(ContentRule, Len(r.out) - Len(prices))
                /\ printed' = IF r.raised
                              THEN printed \cup {"Please try again later"}
                              ELSE printed
                /\ read_failures' = read_failures + (IF r.raised THEN 1 ELSE 0)
    /\ price_strings' = prices'
    /\ pc' = "check_strings"
    /\ UNCHANGED <<driver, quit_calls, exc>>
    /\ UNCHANGED <<confirm_vars, failure_vars, pat_idx, queried, matched>>
    /\ UNCHANGED <<cleaned_prices, avg_price, avg_empty_call>>
    /\ UNCHANGED <<parse_vars, url_vars, input_vars>>

\* the content rule is skipped; print(f"Extracted ..."); return prices
ContentSkip ==
    /\ pc = "content"
    /\ ~NeedContentRule(prices)
    /\ price_strings' = prices
    /\ pc' = "check_strings"
    /\ UNCHANGED <<driver, quit_calls, op_after_quit, exc, printed>>
    /\ UNCHANGED <<confirm_vars, failure_vars, extract_vars>>
    /\ UNCHANGED <<cleaned_prices, avg_price, avg_empty_call>>
    /\ UNCHANGED <<parse_vars, url_vars, input_vars>>

\* scrape_vinted_prices has returned: what it kept and what was observed of
\* its lookups is gone
ExtractCleared ==
    /\ pat_idx' = 1
    /\ prices' = <<>>
    /\ origin' = <<>>
    /\ queried' = {}
    /\ matched' = {}
    /\ content_scanned' = FALSE
    /\ read_failures' = 0

\* price_strings = scrape_vinted_prices(driver, url)
\* if not price_strings: print("No prices found on the page."); return
CheckStrings ==
    /\ pc = "check_strings"
    /\ ConfirmCleared
    /\ ExtractCleared
    /\ IF price_strings = <<>>
       THEN /\ printed' = printed \cup {"No prices found"}
            /\ pc' = "finally"
       ELSE /\ printed' = printed
            /\ pc' = "clean"
    /\ UNCHANGED <<driver, quit_calls, op_after_quit, exc>>
    /\ UNCHANGED <<failure_vars, post_vars>>
    /\ UNCHANGED <<parse_vars, url_vars, input_vars>>

\* the cleaning loop with "if price_float:" for "if price_float is not None:"
RECURSIVE CleanPricesTruthy(_, _)
CleanPricesTruthy(strings, acc) ==
    IF strings = <<>> THEN acc
    ELSE LET price_float == clean_price(Head(strings)) IN
         CleanPricesTruthy(Tail(strings),
                           IF price_float # NoValue /\ price_float.num # 0
                           THEN Append(acc, price_float)
                           ELSE acc)

\* for price_str in price_strings: price_float = clean_price(price_str);
\* if price_float is not None: cleaned_prices.append(price_float)
RECURSIVE CleanPrices(_, _)
CleanPrices(strings, acc) ==
    IF strings = <<>> THEN acc
    ELSE LET price_float == clean_price(Head(strings)) IN
         CleanPrices(Tail(strings),
                     IF price_float # NoValue THEN Append(acc, price_float)
                     ELSE acc)

CleanLoop ==
    /\ pc = "clean"
    /\ cleaned_prices' = CleanPrices(price_strings, <<>>)
    /\ pc' = "check_cleaned"
    /\ UNCHANGED <<driver, quit_calls, op_after_quit, exc, printed>>
    /\ UNCHANGED <<confirm_vars, failure_vars, extract_vars>>
    /\ UNCHANGED <<price_strings, avg_price, avg_empty_call>>
    /\ UNCHANGED <<parse_vars, url_vars, input_vars>>

\* the check of cleaned_prices without its return
CheckCleanedNoReturn ==
    /\ pc = "check_cleaned"
    /\ printed' = IF cleaned_prices = <<>>
                  THEN printed \cup {"Could not retrieve any prices"}
                  ELSE printed
    /\ pc' = "average"
    /\ UNCHANGED <<driver, quit_calls, op_after_quit, exc>>
    /\ UNCHANGED <<confirm_vars, failure_vars, extract_vars, post_vars>>
    /\ UNCHANGED <<parse_vars, url_vars, input_vars>>

\* if not cleaned_prices: print("Could not retrieve any prices"); return
CheckCleaned ==
    /\ pc = "check_cleaned"
    /\ IF cleaned_prices = <<>>
       THEN /\ printed' = printed \cup {"Could not retrieve any prices"}
            /\ pc' = "finally"
       ELSE /\ printed' = printed
            /\ pc' = "average"
    /\ UNCHANGED <<driver, quit_calls, op_after_quit, exc>>
    /\ UNCHANGED <<confirm_vars, failure_vars, extract_vars, post_vars>>
    /\ UNCHANGED <<parse_vars, url_vars, input_vars>>

\* sum(prices) as a fraction
RECURSIVE Sum(_)
Sum(p) ==
    IF p = <<>> THEN [num |-> 0, den |-> 1]
    ELSE LET rest == Sum(Tail(p)) IN
         [num |-> Head(p).num * rest.den + rest.num * Head(p).den,
          den |-> Head(p).den * rest.den]

calculate_average_price(p) ==
    IF p = <<>> THEN NoValue
    ELSE [num |-> Sum(p).num, den |-> Sum(p).den * Len(p)]

\* filtered_prices = cleaned_prices
\* avg_price = calculate_average_price(filtered_prices)
Average ==
    /\ pc = "average"
    /\ avg_price' = calculate_average_price(cleaned_prices)
    /\ avg_empty_call' = (avg_empty_call \/ cleaned_prices = <<>>)
    /\ pc' = "report"
    /\ UNCHANGED <<driver, quit_calls, op_after_quit, exc, printed>>
    /\ UNCHANGED <<confirm_vars, failure_vars, extract_vars>>
    /\ UNCHANGED <<price_strings, cleaned_prices>>
    /\ UNCHANGED <<parse_vars, url_vars, input_vars>>

\* print("RESULTS") ...; if avg_price is not None: print the average and the
\* resale price suggestion; else: print("Could not calculate average price.")
Report ==
    /\ pc = "report"
    /\ printed' = printed \cup {"RESULTS"} \cup
                    (IF avg_price # NoValue
                     THEN {"RESALE PRICE SUGGESTION"}
                     ELSE {"Could not calculate average price"})
    /\ pc' = "finally"
    /\ UNCHANGED <<driver, quit_calls, op_after_quit, exc>>
    /\ UNCHANGED <<confirm_vars, failure_vars, extract_vars, post_vars>>
    /\ UNCHANGED <<parse_vars, url_vars, input_vars>>

\* except Exception as e: print(f"Error occurred: {e}")
Except ==
    /\ pc = "except"
    /\ exc' = TRUE
    /\ printed' = printed \cup {"Error occurred"}
    /\ pc' = "finally"
    /\ UNCHANGED <<driver, quit_calls, op_after_quit>>
    /\ UNCHANGED <<confirm_vars, failure_vars, extract_vars, post_vars>>
    /\ UNCHANGED <<parse_vars, url_vars, input_vars>>

\* driver.quit() at the end of the try block instead of in finally: an
\* exception skips it
FinallySkippedOnError ==
    /\ pc = "finally"
    /\ IF driver # None /\ ~exc
       THEN /\ printed' = printed \cup {"Thanks"}
            /\ quit_calls' = quit_calls + 1
       ELSE UNCHANGED <<printed, quit_calls>>
    /\ pc' = "done"
    /\ UNCHANGED <<driver, op_after_quit, exc>>
    /\ UNCHANGED <<confirm_vars, failure_vars, extract_vars, post_vars>>
    /\ UNCHANGED <<parse_vars, url_vars, input_vars>>

\* finally: if driver: print("Thanks ..."); driver.quit()
Finally ==
    /\ pc = "finally"
    /\ IF driver # None
       THEN /\ printed' = printed \cup {"Thanks"}
            /\ quit_calls' = quit_calls + 1
       ELSE UNCHANGED <<printed, quit_calls>>
    /\ pc' = "done"
    /\ UNCHANGED <<driver, op_after_quit, exc>>
    /\ UNCHANGED <<confirm_vars, failure_vars, extract_vars, post_vars>>
    /\ UNCHANGED <<parse_vars, url_vars, input_vars>>

----------------------------------------------------------------------------
(* Specifications *)

MainNext ==
    \/ SetupDriver
    \/ DriverGet
    \/ WaitSelector
    \/ WaitBody
    \/ Settle
    \/ QueryPattern
    \/ ContentScan
    \/ ContentSkip
    \/ CheckStrings
    \/ CleanLoop
    \/ CheckCleaned
    \/ Average
    \/ Report
    \/ Except
    \/ Finally

\* a run of main from setup_driver on
Init == InitMain /\ IdleParse /\ IdleUrl /\ IdleInput
Next == MainNext
Spec == Init /\ [][Next]_vars

\* clean_price applied to each fragment
ParseInit == InitParse /\ IdleUrl /\ IdleInput /\ IdleMain
ParseNext == CleanPriceCall
SpecParse == ParseInit /\ [][ParseNext]_vars

\* construct_search_url applied to each triple
UrlInit == InitUrl /\ IdleParse /\ IdleInput /\ IdleMain
UrlNext == ConstructSearchUrlCall
SpecUrl == UrlInit /\ [][UrlNext]_vars

\* a run of get_user_input; the interpreter runs each statement, and the
\* statement that reads a choice runs when the user has typed one
InputNext ==
    \/ ReadBrand
    \/ ReadDescription
    \/ LoopEnter
    \/ LoopExit
    \/ ReadChoice
InputInit == InitInput /\ IdleParse /\ IdleUrl /\ IdleMain
SpecInput == InputInit /\ [][InputNext]_vars /\ WF_vars(InputNext)

----------------------------------------------------------------------------
(* What the claims speak of, stated without the code's algorithms *)

\* s[a+1..b] is s without its leading and trailing whitespace
TrimsTo(s, a, b) ==
    /\ \A i \in 1..a : s[i] \in Whitespace
    /\ \A i \in (b + 1)..Len(s) : s[i] \in Whitespace
    /\ a < b => s[a + 1] \notin Whitespace /\ s[b] \notin Whitespace

\* t is s without its leading and trailing whitespace
IsTrimOf(t, s) ==
    \E a \in 0..Len(s) : \E b \in a..Len(s) :
        TrimsTo(s, a, b) /\ t = SubSeq(s, a + 1, b)

NotPound(c) == c # Pound

AllDigits(s, i, j) == \A k \in i..j : IsDigit(s[k])

\* s[i..j] has the form digits, optionally a point, optionally more digits
IsNumeric(s, i, j) ==
    /\ i <= j
    /\ \E k \in i..j :
        /\ AllDigits(s, i, k)
        /\ k = j \/ (s[k + 1] = "." /\ AllDigits(s, k + 2, j))

\* s[i..j] is the first numeric token of s, and no longer one starts at i
IsFirstToken(s, i, j) ==
    /\ IsNumeric(s, i, j)
    /\ \A k \in 1..(i - 1) : ~IsDigit(s[k])
    /\ \A j2 \in (j + 1)..Len(s) : ~IsNumeric(s, i, j2)

\* 10^scale times the decimal value of the numeric token s[i..j]
RECURSIVE PlaceValues(_, _, _, _, _)
PlaceValues(s, p, j, point, scale) ==
    IF p > j THEN 0
    ELSE (IF p = point THEN 0
          ELSE DigitVal(s[p]) *
               Pow10(IF p < point THEN scale + point - 1 - p
                     ELSE scale + point - p))
         + PlaceValues(s, p + 1, j, point, scale)

TokenValue(s, i, j, scale) ==
    LET point == IF \E p \in i..j : s[p] = "."
                 THEN CHOOSE p \in i..j : s[p] = "."
                 ELSE j + 1
    IN  PlaceValues(s, i, j, point, scale)

\* C5: when clean_price returns, the result is None exactly when the fragment
\* is empty or holds no digit; otherwise it is the value, never negative, of
\* the first maximal token digits[.digits*] of the fragment with every pound
\* sign removed and trimmed; "£12.50" gives 12.5, "Price: £20" gives 20 and
\* "£1,200" gives 1.
C5_FirstNumericToken ==
    parse_pc = "returned" =>
        LET noPound == SelectSeq(fragment, NotPound)
            cleaned == CHOOSE t \in {SubSeq(noPound, a, b) :
                                        a \in 1..(Len(noPound) + 1),
                                        b \in 0..Len(noPound)} :
                           IsTrimOf(t, noPound)
        IN  /\ (parse_result = NoValue) <=>
                    (fragment = <<>> \/ \A i \in 1..Len(fragment) :
                                            ~IsDigit(fragment[i]))
            /\ parse_result # NoValue =>
                /\ parse_result.num >= 0 /\ parse_result.den > 0
                /\ \E i \in 1..Len(cleaned) : \E j \in i..Len(cleaned) :
                    /\ IsFirstToken(cleaned, i, j)
                    /\ parse_result.num * Pow10(j - i) =
                           TokenValue(cleaned, i, j, j - i) * parse_result.den
            /\ fragment = <<Pound, "1", "2", ".", "5", "0">> =>
                   parse_result = [num |-> 125, den |-> 10]
            /\ fragment = <<"P", "r", "i", "c", "e", ":", " ", Pound, "2", "0">> =>
                   parse_result = [num |-> 20, den |-> 1]
            /\ fragment = <<Pound, "1", ",", "2", "0", "0">> =>
                   parse_result = [num |-> 1, den |-> 1]

\* clean_price has returned 1 for "£1,200"
C5_Witness ==
    /\ parse_pc = "returned"
    /\ fragment = <<Pound, "1", ",", "2", "0", "0">>
    /\ parse_result = [num |-> 1, den |-> 1]

\* f"{brand} {description} {condition}"
Joined(b, d, c) == b \o <<" ">> \o d \o <<" ">> \o Chars(c)

\* C7: the URL construct_search_url returns holds no space, starts with the
\* base endpoint and "?search_text=", and what follows is the trimmed
\* "brand description condition" with "+" for each space and every other
\* character unchanged and in place.
C7_SearchUrl ==
    url_pc = "returned" =>
        LET joined == Joined(url_brand, url_description, url_condition)
            prefix == base_url \o SearchTextParam
            search_text == SubSeq(url, Len(prefix) + 1, Len(url))
        IN  /\ \A i \in 1..Len(url) : url[i] # " "
            /\ Len(url) >= Len(prefix)
            /\ SubSeq(url, 1, Len(prefix)) = prefix
            /\ \E a \in 0..Len(joined) : \E b \in a..Len(joined) :
                /\ TrimsTo(joined, a, b)
                /\ Len(search_text) = b - a
                /\ \A i \in 1..(b - a) :
                       search_text[i] =
                           IF joined[a + i] = " " THEN "+" ELSE joined[a + i]

\* a URL was built from a brand with whitespace around it, an empty
\* description and a condition of three words
C7_Witness ==
    /\ url_pc = "returned"
    /\ url_brand = <<Tab, "a">>
    /\ url_description = <<>>
    /\ url_condition = "New With Tags"
    /\ url = base_url \o SearchTextParam \o
               <<"a", "+", "+", "N", "e", "w", "+", "W", "i", "t", "h", "+",
                 "T", "a", "g", "s">>

C8_MenuState ==
    /\ condition \in ConditionLabels \cup {None}
    /\ in_pc = "returned" => condition \in ConditionLabels
    /\ valid_entered = None => condition = None /\ in_pc # "returned"
    /\ valid_entered # None => condition = valid_entered
    /\ invalid_msgs = invalid_entered
    /\ prompts = invalid_entered + (IF valid_entered = None THEN 0 ELSE 1)

C8_InvalidChoiceStep ==
    (in_pc = "choice" /\ invalid_entered' = invalid_entered + 1) =>
        /\ invalid_msgs' = invalid_msgs + 1
        /\ in_pc' = "while"
        /\ UNCHANGED <<brand, description, condition, valid_entered>>

\* C8: get_user_input does not return while only invalid choices were typed;
\* each invalid choice prints one "Invalid input" line, leads to one more
\* prompt and changes nothing else; the condition returned is the label of
\* the first valid choice typed, one of the five labels; and once a valid
\* choice is typed the function returns.
C8_MenuReprompts ==
    /\ []C8_MenuState
    /\ [][C8_InvalidChoiceStep]_vars
    /\ (valid_entered # None) ~> (in_pc = "returned")

\* get_user_input has returned after two invalid choices and a valid one
C8_Witness ==
    /\ in_pc = "returned"
    /\ invalid_entered = 2
    /\ prompts = 3
    /\ condition = "Very Good"

Min(S) == CHOOSE x \in S : \A y \in S : x <= y

\* the fragments a structural rule collected
StructuralFragments == {i \in 1..Len(origin) : origin[i] # ContentRule}

\* C1: after driver.get failed, or the wait for the render failed,
\* scrape_vinted_prices returns an empty list and raises nothing, and main
\* prints "No prices found" and never "Error occurred".
C1_FailureRecovered ==
    (nav_failed \/ wait_failed) =>
        /\ pc # "except"
        /\ ~exc
        /\ price_strings = <<>>
        /\ pc = "done" =>
            /\ "No prices found" \in printed
            /\ "Error occurred" \notin printed

\* C2: driver.quit() is called at most once, never without a driver, exactly
\* once by the time main is done if setup_driver returned a driver; no call
\* on the driver follows it.
C2_DriverReleased ==
    /\ quit_calls <= 1
    /\ driver = None => quit_calls = 0
    /\ (pc = "done" /\ driver # None) => quit_calls = 1
    /\ quit_calls = 1 => pc = "done"
    /\ ~op_after_quit

\* main is done after an exception, and the driver it had was quit
C2_Witness ==
    /\ pc = "done"
    /\ exc
    /\ driver # None
    /\ quit_calls = 1

\* C3: the fragments of the structural stage all come from the first rule
\* that matched an element, and no rule after that one is queried.
C3_SingleRule ==
    matched # {} =>
        /\ \A i \in StructuralFragments : origin[i] = Min(matched)
        /\ \A k \in queried : k <= Min(matched)

\* C4 as claimed: when a structural rule matched an element, the '£' text
\* scan is not run and no fragment comes from it.
C4_ScanOnlyIfNoMatch ==
    matched # {} =>
        /\ ~content_scanned
        /\ \A i \in 1..Len(origin) : origin[i] # ContentRule

\* C4: the '£' text scan is run exactly when the structural stage collected
\* no fragment; when it collected one, the scan is not run and every fragment
\* returned is a structural one.
C4_ScanOnlyIfNoFragment ==
    /\ content_scanned => StructuralFragments = {}
    /\ StructuralFragments # {} =>
        /\ ~content_scanned
        /\ \A i \in 1..Len(origin) : origin[i] # ContentRule
    /\ (pc = "check_strings" /\ ~wait_failed) =>
        (content_scanned <=> StructuralFragments = {})

\* the extraction has ended with fragments of a structural rule and without
\* the text scan
C4_Witness ==
    /\ pc = "check_strings"
    /\ matched # {}
    /\ price_strings # <<>>
    /\ ~content_scanned

\* clean_price gives a number for the fragment
Parseable(f) == clean_price(f) # NoValue

\* the cleaning loop has run
Cleaned ==
    \/ pc \in {"check_cleaned", "average", "report"}
    \/ pc \in {"finally", "done"} /\ price_strings # <<>>

\* C6: after the cleaning loop, cleaned_prices holds the clean_price result of
\* each parseable fragment, in order, and nothing else; when no fragment is
\* parseable, main prints "Could not retrieve any prices", computes no
\* average and ends without an error.
C6_ParseFailuresDropped ==
    Cleaned =>
        LET idx == {i \in 1..Len(price_strings) : Parseable(price_strings[i])} IN
        /\ Len(cleaned_prices) = Cardinality(idx)
        /\ \A i \in idx :
               cleaned_prices[Cardinality({j \in idx : j <= i})] =
                   clean_price(price_strings[i])
        /\ (idx = {} /\ pc \in {"finally", "done"}) =>
            /\ "Could not retrieve any prices" \in printed
            /\ printed \cap {"RESULTS", "Error occurred"} = {}
            /\ avg_price = NoValue
            /\ ~avg_empty_call
            /\ ~exc

\* the cleaning loop dropped an unparseable fragment and kept a price of zero
C6_Witness ==
    /\ pc = "report"
    /\ price_strings = <<<<"S", "o", "l", "d">>, <<Pound, "0">>>>
    /\ cleaned_prices = <<[num |-> 0, den |-> 1]>>

\* C9: the time waited for the price selectors before the wait for the body
\* starts is at most the one bound; the body is waited for at most once; and
\* the extraction starts after the one final settle delay, preceded by the
\* extra delay exactly when the body was waited for.
C9_SelectorWaitBounded ==
    /\ pc = "wait_body" => sel_waited <= WaitTimeout
    /\ body_waits <= 1
    /\ (pc = "patterns" /\ queried = {}) =>
           sleeps = IF body_waits = 1 THEN <<BodySettle, FinalSettle>>
                    ELSE <<FinalSettle>>

Outcomes ==
    {"No prices found", "Could not retrieve any prices", "RESULTS",
     "Error occurred"}

\* C10: the resale price suggestion is printed exactly when no exception
\* reached main and some fragment parsed; calculate_average_price is never
\* called with an empty list, the average reported is never None and "Could
\* not calculate average price" is never printed; a run that had a driver
\* ends with exactly one of the four outcomes.
C10_Outcomes ==
    /\ ~avg_empty_call
    /\ "Could not calculate average price" \notin printed
    /\ pc = "report" => avg_price # NoValue
    /\ "RESULTS" \in printed <=> "RESALE PRICE SUGGESTION" \in printed
    /\ pc = "done" =>
        /\ "RESALE PRICE SUGGESTION" \in printed <=>
               (~exc /\ \E i \in 1..Len(price_strings) :
                            Parseable(price_strings[i]))
        /\ driver # None => Cardinality(printed \cap Outcomes) = 1

\* main is done and has printed the suggestion for two prices
C10_Witness ==
    /\ pc = "done"
    /\ "RESALE PRICE SUGGESTION" \in printed
    /\ Len(cleaned_prices) = 2
    /\ avg_price = [num |-> 5, den |-> 2]

====
